---- MODULE Spec2Model ----
(***************************************************************************)
(* Model of the metrics reporting script boxplot.py, which exists in two   *)
(* near-identical copies:                                                  *)
(*   "improved" = src/csvs/csvs/boxplot.py                                 *)
(*   "basic"    = src/csvs-20250410T203914Z-001/csvs/boxplot.py            *)
(* The script is one linear run: create the outputs directory, read three  *)
(* CSV files, drop duplicates, split rows by Kind, then loop over a fixed  *)
(* metric list (skip / statistics / trend / assessment / chart).           *)
(*                                                                         *)
(* Three specifications share the variables below:                         *)
(*   Spec         - lines 6-29: makedirs, the CSV loading loop,            *)
(*                  drop_duplicates and the Kind filters;                  *)
(*   SpecAnalyzer - the control flow of the class_metrics loop: the skip   *)
(*                  rule, figure handling, the try/except around the chart *)
(*                  and the arguments given to sns.boxplot;                *)
(*   SpecStats    - the numeric part of one loop iteration: dropna,        *)
(*                  groupby('Tag').median(), the trend and the threshold   *)
(*                  assessments.                                           *)
(* Metric values are integers; a median is kept doubled (in half units) so *)
(* that the mean of the two middle values of an even-sized group is exact. *)
(***************************************************************************)
EXTENDS Integers, Sequences, FiniteSets, TLC

VARIABLES
    pc,            \* position of the script
    \* ---- loader (lines 6-29)
    fs0,           \* paths that exist before the run
    fs,            \* paths that exist now
    fileIdx,       \* number of entries of `files` already read
    read_error,    \* 0, or the index of the file whose pd.read_csv raised
    rows_read,     \* sum of len(df) over the files read so far
    all_data,      \* the combined frame, a sequence of rows
    class_data,    \* rows whose Kind is a class kind
    method_data,   \* rows whose Kind is a method kind
    \* ---- analyzer loop
    variant,       \* which copy of the script runs
    columns,       \* class_data.columns restricted to the metric names
    mi,            \* index in class_metrics of the metric of this iteration
    analyzed,      \* metrics whose statistics, trend, assessment were printed
    skipped,       \* metrics for which the skip notice was printed
    charts,        \* metrics whose outputs/<metric>_boxplot.png was saved
    logged,        \* metrics for which "Could not create boxplot" was printed
    chart_failed,  \* metrics for which some step of chart production raised
    open_figures,  \* number of pyplot figures currently open
    use_notch,     \* the local use_notch of the improved copy: "unset", "True", "False"
    notch,         \* per metric, the notch= argument handed to sns.boxplot, likewise
    \* ---- statistics of one iteration
    metric,        \* the metric under analysis
    metric_rows,   \* class_data projected on (Tag, metric)
    clean_data,    \* after dropna(subset=[metric])
    medians,       \* groupby('Tag')[metric].median(), doubled values
    trend,         \* "increasing" / "decreasing" / "stable"
    assessment     \* the printed (tag, value, label) lines

loaderVars == <<fs0, fs, fileIdx, read_error, rows_read, all_data, class_data, method_data>>
analyzerVars == <<variant, columns, mi, analyzed, skipped, charts, logged, chart_failed,
                  open_figures, use_notch, notch>>
statsVars == <<metric, metric_rows, clean_data, medians, trend, assessment>>
vars == <<pc, loaderVars, analyzerVars, statsVars>>

(***************************************************************************)
(* Bounds of the model.                                                    *)
(***************************************************************************)
MaxRows == 2        \* rows per CSV file
MaxClassRows == 3   \* class rows (all tags together) in the statistics

(***************************************************************************)
(* Program constants.                                                      *)
(***************************************************************************)
\* the keys of `files`, in insertion order; groupby('Tag') sorts its keys,
\* and the lexicographic order of these three strings is this same order
Tags == <<"r5.11.4", "r5.12.0", "r5.12.1">>

TagIndex(t) == CHOOSE k \in 1..Len(Tags) : Tags[k] = t

ClassKinds == {"Private Class", "Public Class"}

MethodKinds == {"Private Method", "Public Method", "Protected Method"}

class_metrics == <<"SumCyclomatic", "MaxInheritanceTree", "PercentLackOfCohesion",
                   "CountClassDerived", "CountClassCoupled", "CountDeclMethod",
                   "CountLineCode">>

MetricSet == {class_metrics[k] : k \in 1..Len(class_metrics)}

\* the Kind values the model's CSV rows take: a class, a method, neither
InputKinds == {"Public Class", "Protected Method", "File"}

\* the analyzer loop has not started
AnalyzerIdle ==
    /\ variant = "basic"
    /\ columns = {}
    /\ mi = 0
    /\ analyzed = <<>>
    /\ skipped = <<>>
    /\ charts = {}
    /\ logged = {}
    /\ chart_failed = {}
    /\ open_figures = 0
    /\ use_notch = "unset"
    /\ notch = [m \in MetricSet |-> "unset"]

\* no metric is under analysis
StatsIdle ==
    /\ metric = "none"
    /\ metric_rows = <<>>
    /\ clean_data = <<>>
    /\ medians = <<>>
    /\ trend = "unset"
    /\ assessment = <<>>

\* the loader's variables once the script is past line 29
LoaderIdle ==
    /\ fs0 = {"outputs"}
    /\ fs = {"outputs"}
    /\ fileIdx = Len(Tags)
    /\ read_error = 0
    /\ rows_read = 0
    /\ all_data = <<>>
    /\ class_data = <<>>
    /\ method_data = <<>>

(***************************************************************************)
(* CSV Loader and Row Classifier.                                          *)
(***************************************************************************)
\* the contents pd.read_csv may return: up to MaxRows rows, rows equal in
\* every original column allowed
FileContents == UNION {[1..n -> [Kind : InputKinds]] : n \in 0..MaxRows}

\* one identifier for every row of the file
UniqueIdConstant(df, k) == 0

\* df['unique_id'] = range(len(df)): the k-th row of the file gets k - 1
UniqueId(df, k) == k - 1

\* df['Tag'] = tag ; df['unique_id'] = range(len(df))
AddColumns(df, tag) ==
    [k \in 1..Len(df) |-> [Kind |-> df[k].Kind, Tag |-> tag, unique_id |-> UniqueId(df, k)]]

\* DataFrame.drop_duplicates(): keep the first of the rows equal in all columns
RECURSIVE DropFrom(_, _)
DropFrom(frame, kept) ==
    IF frame = <<>> THEN kept
    ELSE IF \E k \in 1..Len(kept) : kept[k] = Head(frame)
         THEN DropFrom(Tail(frame), kept)
         ELSE DropFrom(Tail(frame), Append(kept, Head(frame)))

DropDuplicates(frame) == DropFrom(frame, <<>>)

\* frame[frame['Kind'].isin(kinds)]
IsIn(frame, kinds) == SelectSeq(frame, LAMBDA r : r.Kind \in kinds)

Init ==
    /\ pc = "start"
    /\ fs0 \in {{}, {"outputs"}}
    /\ fs = fs0
    /\ fileIdx = 0
    /\ read_error = 0
    /\ rows_read = 0
    /\ all_data = <<>>
    /\ class_data = <<>>
    /\ method_data = <<>>
    /\ AnalyzerIdle
    /\ StatsIdle

\* os.makedirs("outputs", exist_ok=True)
MakeDirs ==
    /\ pc = "start"
    /\ fs' = fs \cup {"outputs"}
    /\ pc' = "read"
    /\ UNCHANGED <<fs0, fileIdx, read_error, rows_read, all_data, class_data, method_data>>
    /\ UNCHANGED <<analyzerVars, statsVars>>

\* one iteration of `for tag, file in files.items()` whose read succeeds
ReadCsv ==
    /\ pc = "read"
    /\ fileIdx < Len(Tags)
    /\ \E df \in FileContents :
          /\ all_data' = all_data \o AddColumns(df, Tags[fileIdx + 1])
          /\ rows_read' = rows_read + Len(df)
    /\ fileIdx' = fileIdx + 1
    /\ pc' = IF fileIdx' = Len(Tags) THEN "dedup" ELSE "read"
    /\ UNCHANGED <<fs0, fs, read_error, class_data, method_data>>
    /\ UNCHANGED <<analyzerVars, statsVars>>

\* a per-file skip instead of the uncaught exception
ReadCsvSkip ==
    /\ pc = "read"
    /\ fileIdx < Len(Tags)
    /\ read_error' = fileIdx + 1
    /\ fileIdx' = fileIdx + 1
    /\ pc' = IF fileIdx' = Len(Tags) THEN "dedup" ELSE "read"
    /\ UNCHANGED <<fs0, fs, rows_read, all_data, class_data, method_data>>
    /\ UNCHANGED <<analyzerVars, statsVars>>

\* pd.read_csv raises (file missing or unreadable); nothing catches it
ReadCsvFail ==
    /\ pc = "read"
    /\ fileIdx < Len(Tags)
    /\ read_error' = fileIdx + 1
    /\ pc' = "aborted"
    /\ UNCHANGED <<fs0, fs, fileIdx, rows_read, all_data, class_data, method_data>>
    /\ UNCHANGED <<analyzerVars, statsVars>>

\* all_data = all_data.drop_duplicates()
DropDuplicatesStep ==
    /\ pc = "dedup"
    /\ all_data' = DropDuplicates(all_data)
    /\ pc' = "classify"
    /\ UNCHANGED <<fs0, fs, fileIdx, read_error, rows_read, class_data, method_data>>
    /\ UNCHANGED <<analyzerVars, statsVars>>

\* class_data = all_data[...isin(class kinds)].copy(), likewise method_data
Classify ==
    /\ pc = "classify"
    /\ class_data' = IsIn(all_data, ClassKinds)
    /\ method_data' = IsIn(all_data, MethodKinds)
    /\ pc' = "loaded"
    /\ UNCHANGED <<fs0, fs, fileIdx, read_error, rows_read, all_data>>
    /\ UNCHANGED <<analyzerVars, statsVars>>

Next == MakeDirs \/ ReadCsv \/ ReadCsvFail \/ DropDuplicatesStep \/ Classify

Spec == Init /\ [][Next]_vars

(***************************************************************************)
(* Claims about the loader.                                                *)
(***************************************************************************)
\* the rows of all_data carry pairwise distinct (Tag, unique_id) pairs
DistinctTagId ==
    \A a, b \in 1..Len(all_data) :
        (all_data[a].Tag = all_data[b].Tag /\ all_data[a].unique_id = all_data[b].unique_id)
            => a = b

\* C10: drop_duplicates removes no row: every loaded row carries a
\* (Tag, unique_id) pair distinct from every other row's, so after the
\* deduplication the combined frame has exactly the sum of the per-file row
\* counts, also when rows agree in every original column.
C10_DedupRemovesNothing ==
    /\ DistinctTagId
    /\ pc \in {"classify", "loaded"} => Len(all_data) = rows_read

\* deduplication has run on a frame holding two rows of one file that agree
\* in every original column and two such rows of different files
C10_Witness ==
    /\ pc = "classify"
    /\ \E a, b \in 1..Len(all_data) :
          a # b /\ all_data[a].Tag = all_data[b].Tag /\ all_data[a].Kind = all_data[b].Kind
    /\ \E a, b \in 1..Len(all_data) :
          /\ all_data[a].Tag # all_data[b].Tag
          /\ all_data[a].Kind = all_data[b].Kind
          /\ all_data[a].unique_id = all_data[b].unique_id

\* what a failed read leaves behind, the file system apart
AbortedAtFailedFile ==
    /\ pc = "aborted"
    /\ fileIdx = read_error - 1
    /\ \A k \in 1..Len(all_data) : TagIndex(all_data[k].Tag) < read_error
    /\ class_data = <<>> /\ method_data = <<>>
    /\ mi = 0 /\ analyzed = <<>> /\ skipped = <<>> /\ charts = {}
    /\ ~ ENABLED Next

\* C7 as stated: a failed read aborts the run at that file (no later file
\* read, no skip, no metric analyzed) and nothing at all, file or directory,
\* has been written.
C7_AbortNoSideEffect ==
    read_error # 0 => (AbortedAtFailedFile /\ fs = fs0)

\* C7 as amended: a failed read aborts the run at that file (no later file
\* read, no skip, no metric analyzed); no file has been written, and the
\* only path the run has added is the outputs directory, made before the
\* first read.
C7_AbortOnlyOutputsDir ==
    read_error # 0 => (AbortedAtFailedFile /\ fs = fs0 \cup {"outputs"})

\* the second file's read failed after the first was read, and the outputs
\* directory did not exist before the run
C7_Witness ==
    /\ read_error = 2
    /\ pc = "aborted"
    /\ all_data # <<>>
    /\ fs0 = {}

(***************************************************************************)
(* Statistics, trend and assessment of one metric (one loop iteration).    *)
(* A cell of the metric's column is <<>> (NaN) or <<v>>.                   *)
(***************************************************************************)
\* the values the metric's column takes in the model's class rows
MetricValues(m) ==
    IF m = "MaxInheritanceTree" THEN {1, 2, 6, 8} ELSE {20, 50, 80, 82}

Cells(m) == {<<>>} \cup {<<v>> : v \in MetricValues(m)}

\* class rows in the order the loader leaves them: file after file
ClassRows(m) ==
    {f \in UNION {[1..n -> [Tag : {Tags[k] : k \in 1..Len(Tags)}, val : Cells(m)]] :
                    n \in 0..MaxClassRows} :
        \A k \in 1..(Len(f) - 1) : TagIndex(f[k].Tag) <= TagIndex(f[k + 1].Tag)}

\* class_data.dropna(subset=[metric])
DropNa(frame) == SelectSeq(frame, LAMBDA r : r.val # <<>>)

RECURSIVE Insert(_, _)
Insert(v, sorted) ==
    IF sorted = <<>> THEN <<v>>
    ELSE IF v <= Head(sorted) THEN <<v>> \o sorted
    ELSE <<Head(sorted)>> \o Insert(v, Tail(sorted))

RECURSIVE Sorted(_)
Sorted(vals) == IF vals = <<>> THEN <<>> ELSE Insert(Head(vals), Sorted(Tail(vals)))

\* twice the median of a non-empty list: the middle value, or the mean of
\* the two middle values
Median2(vals) ==
    LET s == Sorted(vals)
        n == Len(s)
    IN IF n % 2 = 1 THEN 2 * s[(n + 1) \div 2] ELSE s[n \div 2] + s[n \div 2 + 1]

GroupValues(frame, tag) ==
    LET g == SelectSeq(frame, LAMBDA r : r.Tag = tag)
    IN [k \in 1..Len(g) |-> g[k].val[1]]

\* clean_data.groupby('Tag')[metric].median(): one entry per tag that has
\* rows, in sorted tag order
RECURSIVE GroupMedians(_, _)
GroupMedians(frame, k) ==
    IF k > Len(Tags) THEN <<>>
    ELSE LET g == GroupValues(frame, Tags[k])
         IN (IF g = <<>> THEN <<>> ELSE <<[Tag |-> Tags[k], value2 |-> Median2(g)]>>)
            \o GroupMedians(frame, k + 1)

\* a strict comparison in place of the non-strict one
IsStrictlyIncreasing(ms) == \A k \in 1..(Len(ms) - 1) : ms[k].value2 < ms[k + 1].value2

\* Series.is_monotonic_increasing / is_monotonic_decreasing: non-strict
IsMonotonicIncreasing(ms) == \A k \in 1..(Len(ms) - 1) : ms[k].value2 <= ms[k + 1].value2

IsMonotonicDecreasing(ms) == \A k \in 1..(Len(ms) - 1) : ms[k].value2 >= ms[k + 1].value2

TrendOf(ms) ==
    IF IsMonotonicIncreasing(ms) THEN "increasing"
    ELSE IF IsMonotonicDecreasing(ms) THEN "decreasing"
    ELSE "stable"

\* value > k and value < k on a doubled value
Gt(value2, k) == value2 > 2 * k

Lt(value2, k) == value2 < 2 * k

DitAssessment(value2) ==
    IF Gt(value2, 6) THEN "Too high (>6)"
    ELSE IF Lt(value2, 2) THEN "Too low (<2)"
    ELSE "Optimal (2-6)"

\* the Moderate band taken to start at 50 inclusive
LcomAssessmentInclusive(value2) ==
    IF Gt(value2, 80) THEN "Poor (>80%)"
    ELSE IF ~ Lt(value2, 50) THEN "Moderate (50-80%)"
    ELSE "Good (<50%)"

LcomAssessment(value2) ==
    IF Gt(value2, 80) THEN "Poor (>80%)"
    ELSE IF Gt(value2, 50) THEN "Moderate (50-80%)"
    ELSE "Good (<50%)"

CyclomaticAssessment(value2) ==
    IF Gt(value2, 50) THEN "High (>50)"
    ELSE IF Gt(value2, 20) THEN "Moderate (20-50)"
    ELSE "Low (<20)"

\* the lines of the B.iii block: one per entry of medians, for three metrics
AssessmentLines(m, ms) ==
    IF m = "MaxInheritanceTree"
    THEN [k \in 1..Len(ms) |-> [Tag |-> ms[k].Tag, value2 |-> ms[k].value2,
                                 label |-> DitAssessment(ms[k].value2)]]
    ELSE IF m = "PercentLackOfCohesion"
    THEN [k \in 1..Len(ms) |-> [Tag |-> ms[k].Tag, value2 |-> ms[k].value2,
                                 label |-> LcomAssessment(ms[k].value2)]]
    ELSE IF m = "SumCyclomatic"
    THEN [k \in 1..Len(ms) |-> [Tag |-> ms[k].Tag, value2 |-> ms[k].value2,
                                 label |-> CyclomaticAssessment(ms[k].value2)]]
    ELSE <<>>

StatsInit ==
    /\ pc = "clean"
    /\ metric \in MetricSet
    /\ metric_rows \in ClassRows(metric)
    /\ clean_data = <<>>
    /\ medians = <<>>
    /\ trend = "unset"
    /\ assessment = <<>>
    /\ LoaderIdle
    /\ AnalyzerIdle

\* clean_data = class_data.dropna(subset=[metric])
Clean ==
    /\ pc = "clean"
    /\ clean_data' = DropNa(metric_rows)
    /\ pc' = "medians"
    /\ UNCHANGED <<metric, metric_rows, medians, trend, assessment>>
    /\ UNCHANGED <<loaderVars, analyzerVars>>

\* medians = clean_data.groupby('Tag')[metric].median()
ComputeMedians ==
    /\ pc = "medians"
    /\ medians' = GroupMedians(clean_data, 1)
    /\ pc' = "trend"
    /\ UNCHANGED <<metric, metric_rows, clean_data, trend, assessment>>
    /\ UNCHANGED <<loaderVars, analyzerVars>>

\* trend = "increasing" if ... else "decreasing" if ... else "stable"
ClassifyTrend ==
    /\ pc = "trend"
    /\ trend' = TrendOf(medians)
    /\ pc' = "assess"
    /\ UNCHANGED <<metric, metric_rows, clean_data, medians, assessment>>
    /\ UNCHANGED <<loaderVars, analyzerVars>>

\* B.iii: the if / elif / elif on the metric name
Assess ==
    /\ pc = "assess"
    /\ assessment' = AssessmentLines(metric, medians)
    /\ pc' = "assessed"
    /\ UNCHANGED <<metric, metric_rows, clean_data, medians, trend>>
    /\ UNCHANGED <<loaderVars, analyzerVars>>

StatsNext == Clean \/ ComputeMedians \/ ClassifyTrend \/ Assess

SpecStats == StatsInit /\ [][StatsNext]_vars

(***************************************************************************)
(* Claims about the trend and the assessments.  A median v is held as      *)
(* value2 = 2v: v = 50 is value2 = 100, v = 80 is 160, v = 81 is 162.      *)
(***************************************************************************)
\* the assessment lines are printed for every tag of medians, in order
LinesFollowMedians ==
    /\ Len(assessment) = Len(medians)
    /\ \A k \in 1..Len(medians) :
          assessment[k].Tag = medians[k].Tag /\ assessment[k].value2 = medians[k].value2

\* C1: in the lack-of-cohesion assessment a median of 50 is Good, 80 is
\* Moderate, 81 is Poor; in general Poor iff v > 80, Moderate iff
\* 50 < v <= 80, Good iff v <= 50, for every tag's median.
C1_LcomBands ==
    (pc = "assessed" /\ metric = "PercentLackOfCohesion") =>
        /\ LinesFollowMedians
        /\ \A k \in 1..Len(assessment) :
              LET v2 == assessment[k].value2
                  label == assessment[k].label
              IN /\ label \in {"Poor (>80%)", "Moderate (50-80%)", "Good (<50%)"}
                 /\ (label = "Poor (>80%)") <=> (v2 >= 161)
                 /\ (label = "Moderate (50-80%)") <=> (v2 >= 101 /\ v2 <= 160)
                 /\ (label = "Good (<50%)") <=> (v2 <= 100)
                 /\ v2 = 100 => label = "Good (<50%)"
                 /\ v2 = 160 => label = "Moderate (50-80%)"
                 /\ v2 = 162 => label = "Poor (>80%)"

\* lack of cohesion was assessed with one tag at median 50 and another at
\* median 81 (the mean of 80 and 82)
C1_Witness ==
    /\ pc = "assessed"
    /\ metric = "PercentLackOfCohesion"
    /\ \E k \in 1..Len(assessment) :
          assessment[k].value2 = 100 /\ assessment[k].label = "Good (<50%)"
    /\ \E k \in 1..Len(assessment) :
          assessment[k].value2 = 162 /\ assessment[k].label = "Poor (>80%)"

\* all tags that have data share one median
MediansEqual == \A a, b \in 1..Len(medians) : medians[a].value2 = medians[b].value2

NonDecreasing == \A a, b \in 1..Len(medians) : a < b => medians[a].value2 <= medians[b].value2

NonIncreasing == \A a, b \in 1..Len(medians) : a < b => medians[a].value2 >= medians[b].value2

\* C2: when the per-tag medians are equal across all tags (a single tag
\* included) the trend reported is "stable".
C2_EqualMediansStable ==
    (pc \in {"assess", "assessed"} /\ medians # <<>> /\ MediansEqual) => trend = "stable"

\* C3: with the medians in tag order, a non-decreasing and not constant
\* sequence gives "increasing", a non-increasing and not constant one gives
\* "decreasing", and one that is neither gives "stable".
C3_TrendOfMonotone ==
    pc \in {"assess", "assessed"} =>
        /\ (NonDecreasing /\ ~ MediansEqual) => trend = "increasing"
        /\ (NonIncreasing /\ ~ MediansEqual) => trend = "decreasing"
        /\ (~ NonDecreasing /\ ~ NonIncreasing) => trend = "stable"

\* three tags whose medians rise with a tie (a, a, b with a < b) were
\* classified as increasing
C3_Witness ==
    /\ pc = "assessed"
    /\ Len(medians) = 3
    /\ medians[1].value2 = medians[2].value2
    /\ medians[2].value2 < medians[3].value2
    /\ trend = "increasing"

\* C4: in the cyclomatic-complexity assessment every tag's median is banded
\* as the threshold table states: Low iff v < 20, Moderate iff
\* 20 <= v <= 50, High iff v > 50.
C4_CyclomaticBands ==
    (pc = "assessed" /\ metric = "SumCyclomatic") =>
        /\ LinesFollowMedians
        /\ \A k \in 1..Len(assessment) :
              LET v2 == assessment[k].value2
                  label == assessment[k].label
              IN /\ (label = "Low (<20)") <=> (v2 < 40)
                 /\ (label = "Moderate (20-50)") <=> (v2 >= 40 /\ v2 <= 100)
                 /\ (label = "High (>50)") <=> (v2 > 100)

(***************************************************************************)
(* The class_metrics loop: skip rule, figures, try/except around the chart.*)
(* The statistics an iteration prints are those of SpecStats; here an      *)
(* iteration records that they were printed.  plt.figure, sns.boxplot, the *)
(* labelling calls and plt.savefig may each raise.                         *)
(***************************************************************************)
\* the metrics whose notch the improved copy means to disable
DiscreteMetrics == {"CountClassDerived", "MaxInheritanceTree", "CountClassCoupled"}

\* the metric of the current iteration
Current == class_metrics[mi]

AnalyzerInit ==
    /\ pc = "setup"
    /\ variant \in {"improved", "basic"}
    /\ columns \in SUBSET MetricSet
    /\ mi = 0
    /\ analyzed = <<>>
    /\ skipped = <<>>
    /\ charts = {}
    /\ logged = {}
    /\ chart_failed = {}
    /\ open_figures = 0
    /\ use_notch = "unset"
    /\ notch = [m \in MetricSet |-> "unset"]
    /\ LoaderIdle
    /\ StatsIdle

\* the lines between class_metrics and the loop: the improved copy opens a
\* figure there, the basic copy only prints the heading
BeginPartB ==
    /\ pc = "setup"
    /\ open_figures' = IF variant = "improved" THEN open_figures + 1 ELSE open_figures
    /\ pc' = "loop"
    /\ UNCHANGED <<variant, columns, mi, analyzed, skipped, charts, logged, chart_failed,
                   use_notch, notch>>
    /\ UNCHANGED <<loaderVars, statsVars>>

\* that plt.figure raises: it is outside every try
BeginPartBFail ==
    /\ pc = "setup"
    /\ variant = "improved"
    /\ pc' = "aborted"
    /\ UNCHANGED <<analyzerVars, loaderVars, statsVars>>

\* leaving the loop instead of continuing
SkipMetricBreak ==
    /\ pc = "loop"
    /\ mi < Len(class_metrics)
    /\ class_metrics[mi + 1] \notin columns
    /\ skipped' = Append(skipped, class_metrics[mi + 1])
    /\ mi' = mi + 1
    /\ pc' = "done"
    /\ UNCHANGED <<variant, columns, analyzed, charts, logged, chart_failed, open_figures,
                   use_notch, notch>>
    /\ UNCHANGED <<loaderVars, statsVars>>

\* if metric not in class_data.columns: print the notice; continue
SkipMetric ==
    /\ pc = "loop"
    /\ mi < Len(class_metrics)
    /\ class_metrics[mi + 1] \notin columns
    /\ skipped' = Append(skipped, class_metrics[mi + 1])
    /\ mi' = mi + 1
    /\ pc' = "loop"
    /\ UNCHANGED <<variant, columns, analyzed, charts, logged, chart_failed, open_figures,
                   use_notch, notch>>
    /\ UNCHANGED <<loaderVars, statsVars>>

\* the metric is a column: B.i statistics, B.ii trend, B.iii assessment
Analyze ==
    /\ pc = "loop"
    /\ mi < Len(class_metrics)
    /\ class_metrics[mi + 1] \in columns
    /\ analyzed' = Append(analyzed, class_metrics[mi + 1])
    /\ mi' = mi + 1
    /\ pc' = "figure"
    /\ UNCHANGED <<variant, columns, skipped, charts, logged, chart_failed, open_figures,
                   use_notch, notch>>
    /\ UNCHANGED <<loaderVars, statsVars>>

\* the list is exhausted
LoopDone ==
    /\ pc = "loop"
    /\ mi = Len(class_metrics)
    /\ pc' = "done"
    /\ UNCHANGED <<analyzerVars, loaderVars, statsVars>>

\* plt.figure(figsize=...), the statement before `try:`
OpenFigure ==
    /\ pc = "figure"
    /\ open_figures' = open_figures + 1
    /\ pc' = "boxplot"
    /\ UNCHANGED <<variant, columns, mi, analyzed, skipped, charts, logged, chart_failed,
                   use_notch, notch>>
    /\ UNCHANGED <<loaderVars, statsVars>>

\* plt.figure raises: no handler encloses it, the script ends
OpenFigureFail ==
    /\ pc = "figure"
    /\ chart_failed' = chart_failed \cup {Current}
    /\ pc' = "aborted"
    /\ UNCHANGED <<variant, columns, mi, analyzed, skipped, charts, logged, open_figures,
                   use_notch, notch>>
    /\ UNCHANGED <<loaderVars, statsVars>>

\* the improved copy's if/else on the metric name; the basic copy has none
UseNotch(m) ==
    IF variant = "improved"
    THEN (IF m \in DiscreteMetrics THEN "False" ELSE "True")
    ELSE use_notch

\* the notch= argument of the sns.boxplot call: the literal True in both copies
NotchArgument(m) == "True"

\* use_notch = ... ; sns.boxplot(..., notch=True, ...) returns
Boxplot ==
    /\ pc = "boxplot"
    /\ use_notch' = UseNotch(Current)
    /\ notch' = [notch EXCEPT ![Current] = NotchArgument(Current)]
    /\ pc' = "decorate"
    /\ UNCHANGED <<variant, columns, mi, analyzed, skipped, charts, logged, chart_failed,
                   open_figures>>
    /\ UNCHANGED <<loaderVars, statsVars>>

\* sns.boxplot raises: except Exception prints the message, next metric
BoxplotFail ==
    /\ pc = "boxplot"
    /\ use_notch' = UseNotch(Current)
    /\ notch' = [notch EXCEPT ![Current] = NotchArgument(Current)]
    /\ chart_failed' = chart_failed \cup {Current}
    /\ logged' = logged \cup {Current}
    /\ pc' = "loop"
    /\ UNCHANGED <<variant, columns, mi, analyzed, skipped, charts, open_figures>>
    /\ UNCHANGED <<loaderVars, statsVars>>

\* plt.title (and, in the improved copy, labels, limits, grid, tight_layout)
Decorate ==
    /\ pc = "decorate"
    /\ pc' = "savefig"
    /\ UNCHANGED <<analyzerVars, loaderVars, statsVars>>

\* plt.savefig(f'outputs/{metric}_boxplot.png', ...)
SaveFig ==
    /\ pc = "savefig"
    /\ charts' = charts \cup {Current}
    /\ pc' = "close"
    /\ UNCHANGED <<variant, columns, mi, analyzed, skipped, logged, chart_failed,
                   open_figures, use_notch, notch>>
    /\ UNCHANGED <<loaderVars, statsVars>>

\* plt.close(): closes the current figure, the one this iteration opened
CloseFigure ==
    /\ pc = "close"
    /\ open_figures' = open_figures - 1
    /\ pc' = "loop"
    /\ UNCHANGED <<variant, columns, mi, analyzed, skipped, charts, logged, chart_failed,
                   use_notch, notch>>
    /\ UNCHANGED <<loaderVars, statsVars>>

\* a labelling call or plt.savefig raises: except Exception prints the
\* message and the loop goes on; plt.close() is not reached
ChartFail ==
    /\ pc \in {"decorate", "savefig"}
    /\ chart_failed' = chart_failed \cup {Current}
    /\ logged' = logged \cup {Current}
    /\ pc' = "loop"
    /\ UNCHANGED <<variant, columns, mi, analyzed, skipped, charts, open_figures,
                   use_notch, notch>>
    /\ UNCHANGED <<loaderVars, statsVars>>

AnalyzerNext ==
    \/ BeginPartB \/ BeginPartBFail
    \/ SkipMetric \/ Analyze \/ LoopDone
    \/ OpenFigure \/ OpenFigureFail
    \/ Boxplot \/ BoxplotFail
    \/ Decorate \/ SaveFig \/ CloseFigure \/ ChartFail

SpecAnalyzer == AnalyzerInit /\ [][AnalyzerNext]_vars

(***************************************************************************)
(* Claims about the analyzer loop.                                         *)
(***************************************************************************)
\* the first k metrics of the list that are (present) or are not columns
Handled(k, present) ==
    SelectSeq(SubSeq(class_metrics, 1, k), LAMBDA m : (m \in columns) = present)

SeqSet(q) == {q[k] : k \in 1..Len(q)}

\* what is still to do: decreases with every step of the loop
Rank ==
    CASE pc = "setup" -> 9
      [] pc = "figure" -> 5
      [] pc = "boxplot" -> 4
      [] pc = "decorate" -> 3
      [] pc = "savefig" -> 2
      [] pc = "close" -> 1
      [] pc = "loop" -> 0
      [] OTHER -> -1

Measure == 10 * (Len(class_metrics) - mi) + Rank

\* the skip rule in every state of a run: the metrics met so far are split,
\* in list order and once each, into the analyzed (columns) and the skipped
\* (not columns); nothing is charted, logged or plotted for a metric that is
\* not a column; a skip is followed by the next loop step, never by the end
\* of the run; the loop ends only past the last metric
SkipRule ==
    /\ analyzed = Handled(mi, TRUE)
    /\ skipped = Handled(mi, FALSE)
    /\ (charts \cup logged \cup chart_failed) \subseteq (columns \cap SeqSet(analyzed))
    /\ \A m \in MetricSet \ columns : notch[m] = "unset"
    /\ pc = "done" => mi = Len(class_metrics)
    /\ pc = "aborted" => (mi = 0 \/ Current \in chart_failed)
    /\ pc \notin {"done", "aborted"} => ENABLED AnalyzerNext

\* C5: for any subset of the configured metrics missing from the columns,
\* each missing metric is skipped without failing (no statistics, trend,
\* assessment or chart for it), every remaining configured metric is still
\* processed exactly once in list order, and the run terminates.
C5_SkipMissingMetrics == [] SkipRule /\ [][Measure' < Measure]_vars

\* the loop ended normally with skipped metrics before, between and after
\* analyzed ones
C5_Witness ==
    /\ pc = "done"
    /\ columns = {"MaxInheritanceTree", "CountClassCoupled"}
    /\ skipped = <<"SumCyclomatic", "PercentLackOfCohesion", "CountClassDerived",
                   "CountDeclMethod", "CountLineCode">>
    /\ analyzed = <<"MaxInheritanceTree", "CountClassCoupled">>
    /\ charts = {"MaxInheritanceTree", "CountClassCoupled"}

\* C6: a failure at any step of producing one metric's chart is caught and
\* logged, the run does not abort, and every later metric of the list is
\* still analyzed and its chart produced.
C6_ChartFailureIsolated ==
    /\ \A m \in chart_failed : pc # "aborted" /\ m \in logged
    /\ pc = "done" =>
          \A m \in columns : m \in SeqSet(analyzed) /\ (m \in charts \/ m \in chart_failed)

\* C8: when a chart is rendered the notch is disabled for the three discrete
\* metrics and enabled for every other metric.
C8_NotchByMetricKind ==
    \A m \in MetricSet :
        notch[m] # "unset" => (notch[m] = IF m \in DiscreteMetrics THEN "False" ELSE "True")

\* C9: every figure opened is released by the end of the operation that
\* opened it, whether chart production completes or fails: between two
\* iterations and at the end of the run no figure is open.
C9_FiguresReleased ==
    pc \in {"loop", "done"} => open_figures = 0

====
